---- MODULE Spec2Model ----
(***************************************************************************)
(* Kettlebell Thunder backend (src/app.py): the user table and the snatch  *)
(* workout table behind the four JSON endpoints                            *)
(*   POST /api/auth/register   register_user                               *)
(*   POST /api/auth/login      login_user                                  *)
(*   POST /api/snatch_workouts add_snatch_workout                          *)
(*   GET  /api/snatch_workouts get_all_snatch_workouts                     *)
(* A request body is a function from the JSON keys it carries to their     *)
(* values; a key the body lacks is outside its DOMAIN.  A query result     *)
(* (.first()) is a sequence of at most one row.                            *)
(***************************************************************************)
EXTENDS Integers, Sequences, FiniteSets, TLC

VARIABLES users, workouts, reg, last

vars == <<users, workouts, reg, last>>

----------------------------------------------------------------------------
(* Bounds of the model *)

\* request threads that can be inside register_user at the same time
Procs == {1, 2}
\* strings a client sends as username, email or login identifier
Strings == {"a", "b"}
\* strings a client sends as password when logging in, and when registering
Passwords == {"p", "q"}
RegisterPasswords == {"p"}
\* cap on the rows of the user table (never binding while the unique
\* constraints hold: two usernames allow two users)
MaxUsers == 3

----------------------------------------------------------------------------
(* Request bodies *)

Restrict(f, K) == [k \in K |-> f[k]]

\* data.get(key): None when the key is absent
None == "None"
Get(data, k) == IF k \in DOMAIN data THEN data[k] ELSE None

\* Python truthiness of a request value / of a parsed body
Falsy(v) == v = None \/ v = ""
NoBody(data) == DOMAIN data = {}

RegisterKeys == {"username", "email", "password"}
RegisterBodies ==
    { Restrict(f, K) : f \in [username : Strings, email : Strings, password : RegisterPasswords],
                       K \in SUBSET RegisterKeys }

LoginKeys == {"identifier", "password"}
LoginBodies ==
    { Restrict(f, K) : f \in [identifier : Strings, password : Passwords],
                       K \in SUBSET LoginKeys }

----------------------------------------------------------------------------
(* User model *)

\* bcrypt.generate_password_hash / check_password_hash: the hash is opaque,
\* and only the password it was made from verifies against it
set_password(password) == <<"bcrypt", password>>
check_password(password_hash, password) == password_hash = <<"bcrypt", password>>

\* Query.first(): the first matching row, if any
first(rows) == IF rows = <<>> THEN <<>> ELSE <<rows[1]>>
filter_by_username(tbl, username) == SelectSeq(tbl, LAMBDA u : u.username = username)
filter_by_email(tbl, email) == SelectSeq(tbl, LAMBDA u : u.email = email)

\* as UserUnique, for columns without unique=True
UserUniqueNone(tbl, row) == TRUE
\* unique=True on User.username and User.email: the commit of a row that
\* repeats either raises IntegrityError
UserUnique(tbl, row) ==
    \A i \in 1..Len(tbl) : tbl[i].username # row.username /\ tbl[i].email # row.email

\* primary key assigned by the store on insert (rows are never deleted)
NextId(tbl) == Len(tbl) + 1

----------------------------------------------------------------------------
(* Responses *)

Error(status, msg) == [status |-> status, error |-> msg]

----------------------------------------------------------------------------
(* POST /api/auth/register, one action per step between two store accesses *)

Ready(p) == reg[p].pc = "ready"
Idle == [pc |-> "ready"]

\* the response leaves the handler: the thread is free again
RegFinish(p, data, taken, resp, created) ==
    /\ reg' = [reg EXCEPT ![p] = Idle]
    /\ last' = [op |-> "register", data |-> data, taken |-> taken,
                resp |-> resp, created |-> created]

\* some stored user already has the body's username or email (recorded when
\* the request arrives)
Taken(tbl, data) ==
    \/ filter_by_username(tbl, Get(data, "username")) # <<>>
    \/ filter_by_email(tbl, Get(data, "email")) # <<>>

RegisterReceive(p, data) ==
    /\ Ready(p)
    /\ IF NoBody(data)
         THEN RegFinish(p, data, Taken(users, data),
                        Error(400, "No input data provided"), 0)
       ELSE IF Falsy(Get(data, "username")) \/ Falsy(Get(data, "email"))
                 \/ Falsy(Get(data, "password"))
         THEN RegFinish(p, data, Taken(users, data),
                        Error(400, "Missing username, email, or password"), 0)
       ELSE /\ reg' = [reg EXCEPT ![p] = [pc |-> "check_username", data |-> data,
                                          taken |-> Taken(users, data)]]
            /\ last' = last
    /\ UNCHANGED <<users, workouts>>

RegisterCheckUsername(p) ==
    /\ reg[p].pc = "check_username"
    /\ IF first(filter_by_username(users, reg[p].data.username)) # <<>>
         THEN RegFinish(p, reg[p].data, reg[p].taken,
                        Error(409, "Username already exists"), 0)
         ELSE /\ reg' = [reg EXCEPT ![p].pc = "check_email"]
              /\ last' = last
    /\ UNCHANGED <<users, workouts>>

\* as RegisterCheckEmail, without the lookup
RegisterSkipEmailCheck(p) ==
    /\ reg[p].pc = "check_email"
    /\ reg' = [reg EXCEPT ![p].pc = "commit"]
    /\ UNCHANGED <<users, workouts, last>>

RegisterCheckEmail(p) ==
    /\ reg[p].pc = "check_email"
    /\ IF first(filter_by_email(users, reg[p].data.email)) # <<>>
         THEN RegFinish(p, reg[p].data, reg[p].taken,
                        Error(409, "Email address already registered"), 0)
         ELSE /\ reg' = [reg EXCEPT ![p].pc = "commit"]
              /\ last' = last
    /\ UNCHANGED <<users, workouts>>

RegisterCommit(p) ==
    /\ reg[p].pc = "commit"
    /\ Len(users) < MaxUsers
    /\ LET new_user == [id |-> NextId(users),
                        username |-> reg[p].data.username,
                        email |-> reg[p].data.email,
                        password_hash |-> set_password(reg[p].data.password)]
       IN IF UserUnique(users, new_user)
            THEN /\ users' = Append(users, new_user)
                 /\ RegFinish(p, reg[p].data, reg[p].taken,
                              [status |-> 201,
                               message |-> "User registered successfully!",
                               user |-> [id |-> new_user.id,
                                         username |-> new_user.username,
                                         email |-> new_user.email]],
                              new_user.id)
            ELSE /\ users' = users
                 /\ RegFinish(p, reg[p].data, reg[p].taken,
                              Error(500, "Registration failed due to an internal error"), 0)
    /\ UNCHANGED workouts

----------------------------------------------------------------------------
(* POST /api/auth/login *)

\* the user the identifier resolves to: by email first, then by username
find_user(tbl, identifier) ==
    IF first(filter_by_email(tbl, identifier)) # <<>>
      THEN first(filter_by_email(tbl, identifier))
      ELSE first(filter_by_username(tbl, identifier))

\* jwt.encode(payload, SECRET_KEY, HS256); the payload's iat and exp are
\* wall-clock times, which the model leaves out
encode(sub) == [sub |-> sub, alg |-> "HS256"]

\* as login_response, with an answer of its own for an unknown identifier
login_response_not_found(tbl, data) ==
    IF NoBody(data) THEN Error(400, "No input data provided")
    ELSE IF Falsy(Get(data, "identifier")) \/ Falsy(Get(data, "password"))
      THEN Error(400, "Missing identifier (username/email) or password")
    ELSE LET user == find_user(tbl, data.identifier)
         IN IF user = <<>> THEN Error(404, "User not found")
            ELSE IF check_password(user[1].password_hash, data.password)
              THEN [status |-> 200, message |-> "Login successful!",
                    access_token |-> encode(user[1].id)]
              ELSE Error(401, "Invalid username/email or password")

login_response(tbl, data) ==
    IF NoBody(data) THEN Error(400, "No input data provided")
    ELSE IF Falsy(Get(data, "identifier")) \/ Falsy(Get(data, "password"))
      THEN Error(400, "Missing identifier (username/email) or password")
    ELSE LET user == find_user(tbl, data.identifier)
         IN IF user # <<>> /\ check_password(user[1].password_hash, data.password)
              THEN [status |-> 200, message |-> "Login successful!",
                    access_token |-> encode(user[1].id)]
              ELSE Error(401, "Invalid username/email or password")

login_user(data) ==
    /\ last' = [op |-> "login", data |-> data, tbl |-> users,
                resp |-> login_response(users, data)]
    /\ UNCHANGED <<users, workouts, reg>>

----------------------------------------------------------------------------
(* Dates: a date is <<year, month, day>>, a string a sequence of characters *)

DigitChars == <<"0", "1", "2", "3", "4", "5", "6", "7", "8", "9">>
\* code points of the characters that occur
CodePoint ==
    ("-" :> 45) @@ ("/" :> 47) @@ [c \in {DigitChars[i] : i \in 1..10} |->
                                     47 + (CHOOSE i \in 1..10 : DigitChars[i] = c)]
CharCode(c) == CodePoint[c]
IsDigit(c) == c \in DOMAIN CodePoint /\ CodePoint[c] >= 48
DigitVal(c) == CodePoint[c] - 48
AllDigits(s) == \A i \in DOMAIN s : IsDigit(s[i])

RECURSIVE Num(_)
Num(s) == IF s = <<>> THEN 0
          ELSE 10 * Num(SubSeq(s, 1, Len(s) - 1)) + DigitVal(s[Len(s)])

IsLeap(y) == (y % 4 = 0 /\ y % 100 # 0) \/ y % 400 = 0
DaysInMonth(y, m) ==
    IF m = 2 THEN (IF IsLeap(y) THEN 29 ELSE 28)
    ELSE IF m \in {4, 6, 9, 11} THEN 30 ELSE 31

\* datetime.strptime(s, '%Y-%m-%d').date(): <<date>>, or <<>> for ValueError.
\* %Y takes four digits, %m and %d one or two, and the whole string must match.
strptime(s) ==
    LET n == Len(s)
        shapes == { lm \in {1, 2} :
                      /\ n \in {7 + lm, 8 + lm}
                      /\ s[5] = "-" /\ s[6 + lm] = "-"
                      /\ AllDigits(SubSeq(s, 1, 4))
                      /\ AllDigits(SubSeq(s, 6, 5 + lm))
                      /\ AllDigits(SubSeq(s, 7 + lm, n)) }
    IN IF shapes = {} THEN <<>>
       ELSE LET lm == CHOOSE l \in shapes : TRUE
                y == Num(SubSeq(s, 1, 4))
                m == Num(SubSeq(s, 6, 5 + lm))
                d == Num(SubSeq(s, 7 + lm, n))
            IN IF y >= 1 /\ m \in 1..12 /\ d >= 1 /\ d <= DaysInMonth(y, m)
                 THEN << <<y, m, d>> >> ELSE <<>>

Digit(k) == DigitChars[(k % 10) + 1]
Pad2(k) == <<Digit(k \div 10), Digit(k)>>
Pad4(k) == <<Digit(k \div 1000), Digit(k \div 100), Digit(k \div 10), Digit(k)>>

\* date.isoformat(): YYYY-MM-DD, zero padded
isoformat(date) == Pad4(date[1]) \o <<"-">> \o Pad2(date[2]) \o <<"-">> \o Pad2(date[3])

\* ORDER BY workout_date: calendar order of the Date column
DateLess(a, b) ==
    \/ a[1] < b[1]
    \/ a[1] = b[1] /\ a[2] < b[2]
    \/ a[1] = b[1] /\ a[2] = b[2] /\ a[3] < b[3]

\* Python's str comparison: by code point, a proper prefix first
RECURSIVE StrLess(_, _)
StrLess(a, b) ==
    IF b = <<>> THEN FALSE
    ELSE IF a = <<>> THEN TRUE
    ELSE IF CharCode(a[1]) # CharCode(b[1]) THEN CharCode(a[1]) < CharCode(b[1])
    ELSE StrLess(Tail(a), Tail(b))

----------------------------------------------------------------------------
(* SnatchWorkout model *)

\* a column that holds NULL
Null == 0

InitParams == {"reps_per_interval", "workout_date", "duration_minutes",
               "kettlebell_weight_kg", "total_snatches"}

\* as SnatchWorkout, with the total taken as weight plus snatches
SnatchWorkoutSum(kwargs) ==
    IF DOMAIN kwargs # InitParams THEN [raised |-> "TypeError"]
    ELSE [raised |-> "",
          row |-> [id |-> Null,
                   reps_per_interval |-> kwargs.reps_per_interval,
                   workout_date |-> kwargs.workout_date,
                   duration_minutes |-> kwargs.duration_minutes,
                   kettlebell_weight_kg |-> kwargs.kettlebell_weight_kg,
                   total_snatches |-> kwargs.total_snatches,
                   total_weight_moved_kg |-> kwargs.kettlebell_weight_kg + kwargs.total_snatches,
                   user_id |-> Null]]

\* SnatchWorkout(**kwargs): TypeError unless every parameter of __init__ is
\* given; id and user_id are not set by the constructor
SnatchWorkout(kwargs) ==
    IF DOMAIN kwargs # InitParams THEN [raised |-> "TypeError"]
    ELSE [raised |-> "",
          row |-> [id |-> Null,
                   reps_per_interval |-> kwargs.reps_per_interval,
                   workout_date |-> kwargs.workout_date,
                   duration_minutes |-> kwargs.duration_minutes,
                   kettlebell_weight_kg |-> kwargs.kettlebell_weight_kg,
                   total_snatches |-> kwargs.total_snatches,
                   total_weight_moved_kg |-> kwargs.kettlebell_weight_kg * kwargs.total_snatches,
                   user_id |-> Null]]

\* nullable=False on user_id: the commit of a row without owner raises
\* IntegrityError
NotNull(row) == row.user_id # Null

to_dict(w) ==
    [id |-> w.id,
     workout_date |-> isoformat(w.workout_date),
     duration_minutes |-> w.duration_minutes,
     kettlebell_weight_kg |-> w.kettlebell_weight_kg,
     total_snatches |-> w.total_snatches,
     total_weight_moved_kg |-> w.total_weight_moved_kg,
     reps_per_interval |-> w.reps_per_interval,
     user_id |-> w.user_id]

----------------------------------------------------------------------------
(* POST /api/snatch_workouts *)

required_fields == <<"workout_date_str", "duration_minutes", "kettlebell_weight_kg",
                     "total_snatches">>

add_response(tbl, data) ==
    IF NoBody(data) THEN [resp |-> Error(400, "No input data provided"), tbl |-> tbl]
    ELSE IF \E i \in DOMAIN required_fields : required_fields[i] \notin DOMAIN data
      THEN LET i == CHOOSE i \in DOMAIN required_fields :
                       /\ required_fields[i] \notin DOMAIN data
                       /\ \A j \in 1..(i - 1) : required_fields[j] \in DOMAIN data
           IN [resp |-> [status |-> 400, error |-> "Missing field", field |-> required_fields[i]],
               tbl |-> tbl]
    ELSE LET workout_date_obj == strptime(data.workout_date_str)
         IN IF workout_date_obj = <<>>
              THEN [resp |-> Error(400, "Invalid data format"), tbl |-> tbl]
            ELSE LET new_workout ==
                         SnatchWorkout([workout_date |-> workout_date_obj[1],
                                        duration_minutes |-> data.duration_minutes,
                                        kettlebell_weight_kg |-> data.kettlebell_weight_kg,
                                        total_snatches |-> data.total_snatches])
                 IN IF new_workout.raised # ""
                      THEN [resp |-> Error(500, "An unexpected error occurred"), tbl |-> tbl]
                    ELSE IF ~NotNull(new_workout.row)
                      THEN [resp |-> Error(500, "An unexpected error occurred"), tbl |-> tbl]
                    ELSE LET stored == [new_workout.row EXCEPT !.id = Len(tbl) + 1]
                         IN [resp |-> [status |-> 201, workout |-> to_dict(stored)],
                             tbl |-> Append(tbl, stored)]

add_snatch_workout(data) ==
    /\ LET r == add_response(workouts, data)
       IN /\ workouts' = r.tbl
          /\ last' = [op |-> "add", data |-> data, resp |-> r.resp,
                      before |-> Len(workouts)]
    /\ UNCHANGED <<users, reg>>

----------------------------------------------------------------------------
(* GET /api/snatch_workouts *)

\* SnatchWorkout.query.order_by(workout_date.asc()).all(): every row of the
\* table, of whatever owner; the store fixes no order among rows of one date,
\* so each order that is ascending by date is a possible result
order_by_workout_date_asc(tbl) ==
    { [i \in 1..Len(tbl) |-> tbl[p[i]]] :
        p \in { q \in Permutations(1..Len(tbl)) :
                  \A i, j \in 1..Len(tbl) :
                      i < j => ~DateLess(tbl[q[j]].workout_date, tbl[q[i]].workout_date) } }

PctField == "percentage_change_from_previous_same_weight"

\* round(num / den) to the nearest integer, ties to even (den > 0)
RoundHalfEven(num, den) ==
    LET q == num \div den
        r == num % den
    IN IF 2 * r < den THEN q
       ELSE IF 2 * r > den THEN q + 1
       ELSE q + (q % 2)

\* round((change / previous) * 100, 2), in hundredths of a percent
percentage_change(current, previous) ==
    RoundHalfEven(10000 * (current - previous), previous)

\* as process, with the mapping entry of a weight set once and never updated
RECURSIVE process_first_only(_, _, _)
process_first_only(rows, last_total_weight_moved_by_kb, processed_workouts) ==
    IF rows = <<>> THEN processed_workouts
    ELSE LET workout == Head(rows)
             current_kb_weight == workout.kettlebell_weight_kg
             current_total_weight_moved == workout.total_weight_moved_kg
             pct == IF /\ current_kb_weight \in DOMAIN last_total_weight_moved_by_kb
                       /\ last_total_weight_moved_by_kb[current_kb_weight] > 0
                      THEN <<RoundHalfEven(10000 * (current_total_weight_moved
                                 - last_total_weight_moved_by_kb[current_kb_weight]),
                                 last_total_weight_moved_by_kb[current_kb_weight])>>
                      ELSE <<>>
             workout_dict == (PctField :> pct) @@ to_dict(workout)
             updated == [k \in DOMAIN last_total_weight_moved_by_kb \cup {current_kb_weight} |->
                           IF k \in DOMAIN last_total_weight_moved_by_kb
                             THEN last_total_weight_moved_by_kb[k]
                             ELSE current_total_weight_moved]
         IN process_first_only(Tail(rows), updated, Append(processed_workouts, workout_dict))

\* the loop over workouts_query; a percentage is <<>> for None, <<v>> for v
RECURSIVE process(_, _, _)
process(rows, last_total_weight_moved_by_kb, processed_workouts) ==
    IF rows = <<>> THEN processed_workouts
    ELSE LET workout == Head(rows)
             current_kb_weight == workout.kettlebell_weight_kg
             current_total_weight_moved == workout.total_weight_moved_kg
             pct == IF /\ current_kb_weight \in DOMAIN last_total_weight_moved_by_kb
                       /\ last_total_weight_moved_by_kb[current_kb_weight] > 0
                      THEN <<percentage_change(current_total_weight_moved,
                                 last_total_weight_moved_by_kb[current_kb_weight])>>
                      ELSE <<>>
             workout_dict == (PctField :> pct) @@ to_dict(workout)
             updated == [k \in DOMAIN last_total_weight_moved_by_kb \cup {current_kb_weight} |->
                           IF k = current_kb_weight THEN current_total_weight_moved
                           ELSE last_total_weight_moved_by_kb[k]]
         IN process(Tail(rows), updated, Append(processed_workouts, workout_dict))

\* as sort_insert, with each element put in front of the elements of its key
sort_insert_front(sorted, x) ==
    LET k == Cardinality({ i \in DOMAIN sorted :
                             StrLess(x.workout_date, sorted[i].workout_date) })
    IN SubSeq(sorted, 1, k) \o <<x>> \o SubSeq(sorted, k + 1, Len(sorted))

\* list.sort(key=workout_date, reverse=True): descending by the date string;
\* Python's sort is stable also when reversed, so each element goes behind
\* the elements whose key is not smaller
sort_insert(sorted, x) ==
    LET k == Cardinality({ i \in DOMAIN sorted :
                             ~StrLess(sorted[i].workout_date, x.workout_date) })
    IN SubSeq(sorted, 1, k) \o <<x>> \o SubSeq(sorted, k + 1, Len(sorted))

RECURSIVE sort_reverse(_, _)
sort_reverse(seq, sorted) ==
    IF seq = <<>> THEN sorted
    ELSE sort_reverse(Tail(seq), sort_insert(sorted, Head(seq)))

EmptyDict == [k \in {} |-> 0]

list_response(workouts_query) ==
    [status |-> 200,
     body |-> sort_reverse(process(workouts_query, EmptyDict, <<>>), <<>>)]

\* caller is the user the client is logged in as; the handler reads no
\* credentials and takes no user from the request
get_all_snatch_workouts(caller) ==
    /\ \E workouts_query \in order_by_workout_date_asc(workouts) :
          last' = [op |-> "list", caller |-> caller, query |-> workouts_query,
                   resp |-> list_response(workouts_query)]
    /\ UNCHANGED <<users, workouts, reg>>

----------------------------------------------------------------------------
(* Requests and stores the model explores *)

\* largest number of workout rows in a store the listing is run on
MaxSeed == 3
\* largest number of workout rows in a store both workout endpoints are run on
MaxStored == 2

UserIds == {1, 2}

Chars(y1, y2, y3, y4, s1, m1, m2, s2, d1, d2) == <<y1, y2, y3, y4, s1, m1, m2, s2, d1, d2>>
DateStrings ==
    { Chars("2", "0", "2", "4", "-", "0", "1", "-", "0", "9"),
      <<"2", "0", "2", "4", "-", "2", "-", "3", "0">>,
      Chars("0", "9", "/", "0", "1", "/", "2", "0", "2", "4") }

AddKeys == {"workout_date_str", "duration_minutes", "kettlebell_weight_kg",
            "total_snatches", "reps_per_interval"}
ValidAddBody ==
    [workout_date_str |-> Chars("2", "0", "2", "4", "-", "0", "1", "-", "0", "9"),
     duration_minutes |-> 30, kettlebell_weight_kg |-> 16, total_snatches |-> 32,
     reps_per_interval |-> 5]
\* the valid body, and the bodies that differ from it in one numeric field,
\* each with every date string; then the bodies that lack one key or all
FullAddBodies ==
    { [b EXCEPT !.workout_date_str = s] :
        s \in DateStrings,
        b \in { ValidAddBody,
                [ValidAddBody EXCEPT !.duration_minutes = 0],
                [ValidAddBody EXCEPT !.kettlebell_weight_kg = -16],
                [ValidAddBody EXCEPT !.total_snatches = 0],
                [ValidAddBody EXCEPT !.reps_per_interval = -5] } }
AddBodies ==
    FullAddBodies \cup { Restrict(ValidAddBody, AddKeys \ {k}) : k \in AddKeys }
                  \cup { Restrict(ValidAddBody, {}) }

\* rows as the model class builds them, each owned by a user
SeedRows ==
    { [SnatchWorkout([reps_per_interval |-> 5, workout_date |-> d,
                      duration_minutes |-> 30, kettlebell_weight_kg |-> w,
                      total_snatches |-> n]).row EXCEPT !.user_id = u] :
        d \in {<<2024, 1, 9>>, <<2024, 1, 10>>}, w \in {16, 20},
        n \in {0, 32, 33}, u \in UserIds }
SeedStores(max) ==
    UNION { { [i \in 1..n |-> [f[i] EXCEPT !.id = i]] : f \in [1..n -> SeedRows] } :
            n \in 0..max }
SeedUsers ==
    << [id |-> 1, username |-> "a", email |-> "a", password_hash |-> set_password("p")],
       [id |-> 2, username |-> "b", email |-> "b", password_hash |-> set_password("q")] >>

----------------------------------------------------------------------------

Init ==
    /\ users = <<>>
    /\ workouts = <<>>
    /\ reg = [p \in Procs |-> Idle]
    /\ last = [op |-> "none"]

NextAuth ==
    \/ \E p \in Procs, data \in RegisterBodies : RegisterReceive(p, data)
    \/ \E p \in Procs : RegisterCheckUsername(p)
    \/ \E p \in Procs : RegisterCheckEmail(p)
    \/ \E p \in Procs : RegisterCommit(p)
    \/ \E data \in LoginBodies : login_user(data)

NextStore ==
    \/ \E data \in AddBodies : add_snatch_workout(data)
    \/ \E caller \in UserIds : get_all_snatch_workouts(caller)

Next == NextAuth \/ NextStore

\* the service started on an empty database
Spec == Init /\ [][Next]_vars

\* The workout endpoints read and write the workout table only, and nothing
\* else writes it; they are also explored from databases that hold workouts:
\* both workout endpoints on a database that already holds accounts and
\* workouts
InitStore ==
    /\ users = SeedUsers
    /\ workouts \in SeedStores(MaxStored)
    /\ reg = [p \in Procs |-> Idle]
    /\ last = [op |-> "none"]

SpecStore == InitStore /\ [][NextStore]_vars

\* the listing, a function of the stored rows, on every store of up to
\* MaxSeed rows
InitList ==
    /\ users = SeedUsers
    /\ workouts \in SeedStores(MaxSeed)
    /\ reg = [p \in Procs |-> Idle]
    /\ last = [op |-> "none"]

NextList == \E caller \in UserIds : get_all_snatch_workouts(caller)

SpecList == InitList /\ [][NextList]_vars

----------------------------------------------------------------------------
(* Properties *)

HasToken(resp) == "access_token" \in DOMAIN resp

\* C1: a log-workout request with a parseable date and positive duration,
\* weight and snatch count answers 201 with the new record, and the store
\* holds exactly one more record, whose total_weight_moved_kg is weight times
\* snatches.
C1_ValidBody(data) ==
    /\ {"workout_date_str", "duration_minutes", "kettlebell_weight_kg", "total_snatches"}
          \subseteq DOMAIN data
    /\ strptime(data.workout_date_str) # <<>>
    /\ data.duration_minutes > 0
    /\ data.kettlebell_weight_kg > 0
    /\ data.total_snatches > 0
C1_LogWorkoutSucceeds ==
    (last.op = "add" /\ C1_ValidBody(last.data)) =>
        /\ last.resp.status = 201
        /\ Len(workouts) = last.before + 1
        /\ workouts[Len(workouts)].total_weight_moved_kg =
              last.data.kettlebell_weight_kg * last.data.total_snatches
        /\ last.resp.workout = to_dict(workouts[Len(workouts)])

C3_Entry(id) == CHOOSE e \in { last.resp.body[k] : k \in DOMAIN last.resp.body } : e.id = id
C3_Earlier(i) ==
    { j \in 1..(i - 1) :
        last.query[j].kettlebell_weight_kg = last.query[i].kettlebell_weight_kg }
C3_Closest(i) == CHOOSE j \in C3_Earlier(i) : \A k \in C3_Earlier(i) : k <= j
\* v hundredths of a percent is ((m - p) / p) * 100 rounded to two decimals:
\* no other multiple of 0.01 is nearer
C3_Rounded(v, m, p) ==
    /\ 2 * (10000 * (m - p) - v * p) <= p
    /\ 2 * (v * p - 10000 * (m - p)) <= p
C3_PercentageChange ==
    last.op = "list" =>
        /\ Len(last.resp.body) = Len(last.query)
        /\ \A i \in DOMAIN last.query :
             LET pct == C3_Entry(last.query[i].id)[PctField]
                 m == last.query[i].total_weight_moved_kg
             IN IF C3_Earlier(i) = {} THEN pct = <<>>
                ELSE LET p == last.query[C3_Closest(i)].total_weight_moved_kg
                     IN IF p <= 0 THEN pct = <<>>
                        ELSE Len(pct) = 1 /\ C3_Rounded(pct[1], m, p)
\* 16 kg, then 20 kg, then 16 kg again: the second 16 kg record is compared
\* with the first, which itself got null, and (528 - 512) / 512 = 3.125 %
C3_Witness ==
    /\ last.op = "list"
    /\ Len(last.query) = 3
    /\ last.query[1].kettlebell_weight_kg = 16 /\ last.query[1].total_snatches = 32
    /\ last.query[2].kettlebell_weight_kg = 20
    /\ last.query[3].kettlebell_weight_kg = 16 /\ last.query[3].total_snatches = 33
    /\ C3_Entry(last.query[1].id)[PctField] = <<>>
    /\ C3_Entry(last.query[3].id)[PctField] = <<312>>
\* C4: a log-workout request whose date string is unparseable or one of whose
\* numeric fields is zero or negative answers with a 400-class validation
\* error and leaves the stored records unchanged.
C4_InvalidBody(data) ==
    /\ DOMAIN data = AddKeys
    /\ \/ strptime(data.workout_date_str) = <<>>
       \/ data.duration_minutes <= 0
       \/ data.kettlebell_weight_kg <= 0
       \/ data.total_snatches <= 0
       \/ data.reps_per_interval <= 0
C4_InvalidRejected ==
    (last.op = "add" /\ C4_InvalidBody(last.data)) =>
        /\ last.resp.status >= 400 /\ last.resp.status < 500
        /\ Len(workouts) = last.before

\* C5 (as claimed): a register request whose username or email already
\* belongs to a stored user answers 409 and creates no user.
C5_Conflict_Claimed ==
    (last.op = "register" /\ last.taken) =>
        last.resp.status = 409 /\ last.created = 0

\* C5 (amended): a register request that carries a username, an email and a
\* password, and whose username or email belongs to a stored user when it
\* arrives, answers 409 and creates no user; and no step that ends a register
\* request with 409 changes the user table.
C5_ConflictState ==
    (last.op = "register" /\ last.taken /\ DOMAIN last.data = RegisterKeys) =>
        last.resp.status = 409 /\ last.created = 0
C5_ConflictStep ==
    (/\ \E p \in Procs : reg[p].pc # "ready" /\ reg'[p].pc = "ready"
     /\ last'.op = "register"
     /\ last'.resp.status = 409) => users' = users
C5_Conflict == [](C5_ConflictState) /\ [][C5_ConflictStep]_vars
\* the email is the registered one, the username is new
C5_Witness ==
    /\ last.op = "register"
    /\ last.taken
    /\ DOMAIN last.data = RegisterKeys
    /\ \A i \in DOMAIN users : users[i].username # last.data.username
    /\ \E i \in DOMAIN users : users[i].email = last.data.email
    /\ last.resp.status = 409

\* C6: a login with identifier and password that fails issues no token, and
\* the response is the same whether the identifier matches no stored user or
\* matches one whose password is another.
C6_Matches(tbl, identifier) ==
    { i \in DOMAIN tbl : tbl[i].email = identifier \/ tbl[i].username = identifier }
C6_UnknownUser(tbl, data) == C6_Matches(tbl, data.identifier) = {}
C6_WrongPassword(tbl, data) ==
    /\ C6_Matches(tbl, data.identifier) # {}
    /\ \A i \in C6_Matches(tbl, data.identifier) :
          ~check_password(tbl[i].password_hash, data.password)
C6_FailedLoginsAlike ==
    (/\ last.op = "login"
     /\ DOMAIN last.data = LoginKeys
     /\ C6_UnknownUser(last.tbl, last.data) \/ C6_WrongPassword(last.tbl, last.data)) =>
        /\ ~HasToken(last.resp)
        /\ \A d \in LoginBodies :
              (/\ DOMAIN d = LoginKeys
               /\ C6_UnknownUser(last.tbl, d) \/ C6_WrongPassword(last.tbl, d)) =>
                  login_response(last.tbl, d) = last.resp
\* a wrong password was sent for a stored user while another identifier is
\* unknown
C6_Witness ==
    /\ last.op = "login"
    /\ DOMAIN last.data = LoginKeys
    /\ C6_WrongPassword(last.tbl, last.data)
    /\ \E d \in LoginBodies : DOMAIN d = LoginKeys /\ C6_UnknownUser(last.tbl, d)
    /\ last.resp.status = 401

\* C7: no two stored users share a username, and no two share an email, also
\* when the checks and inserts of two register requests interleave.
C7_UniqueUsers ==
    \A i, j \in DOMAIN users :
        i # j => users[i].username # users[j].username /\ users[i].email # users[j].email
\* two requests for one username both passed the checks; the second commit
\* was refused
C7_Witness ==
    /\ Len(users) = 1
    /\ last.op = "register"
    /\ ~last.taken
    /\ last.resp.status = 500
    /\ users[1].username = last.data.username

\* C8: the listing of an authenticated user holds only that user's records.
C8_OwnRecordsOnly ==
    last.op = "list" =>
        \A k \in DOMAIN last.resp.body : last.resp.body[k].user_id = last.caller

\* C9 (as claimed): the listing is ordered by date descending, records of one
\* date in the reverse of their order in the ascending pass, and no record's
\* percentage differs from the one the pass computed.
C9_Pos(id) == CHOOSE i \in DOMAIN last.query : last.query[i].id = id
C9_Date(id) == last.query[C9_Pos(id)].workout_date
C9_Descending ==
    \A k, l \in DOMAIN last.resp.body :
        k < l => ~DateLess(C9_Date(last.resp.body[k].id), C9_Date(last.resp.body[l].id))
C9_SamePercentages ==
    /\ Len(last.resp.body) = Len(last.query)
    /\ \A i \in DOMAIN last.query :
          \E k \in DOMAIN last.resp.body :
              last.resp.body[k] = process(last.query, EmptyDict, <<>>)[i]
C9_TiesReversed ==
    \A k, l \in DOMAIN last.resp.body :
        (k < l /\ C9_Date(last.resp.body[k].id) = C9_Date(last.resp.body[l].id)) =>
            C9_Pos(last.resp.body[k].id) > C9_Pos(last.resp.body[l].id)
C9_TiesKept ==
    \A k, l \in DOMAIN last.resp.body :
        (k < l /\ C9_Date(last.resp.body[k].id) = C9_Date(last.resp.body[l].id)) =>
            C9_Pos(last.resp.body[k].id) < C9_Pos(last.resp.body[l].id)
C9_Order_Claimed ==
    last.op = "list" => C9_Descending /\ C9_TiesReversed /\ C9_SamePercentages

\* C9 (amended): the listing is ordered by date descending, records of one
\* date in the order they had in the ascending pass, and no record's
\* percentage differs from the one the pass computed.
C9_Order ==
    last.op = "list" => C9_Descending /\ C9_TiesKept /\ C9_SamePercentages
\* two records of 9 January and one of 10 January, with a percentage
C9_Witness ==
    /\ last.op = "list"
    /\ Len(last.resp.body) = 3
    /\ last.resp.body[1].workout_date = isoformat(<<2024, 1, 10>>)
    /\ last.resp.body[2].workout_date = isoformat(<<2024, 1, 9>>)
    /\ last.resp.body[3].workout_date = isoformat(<<2024, 1, 9>>)
    /\ last.resp.body[3][PctField] # <<>>

\* C10: a registered user who logs in with their own username and their own
\* password receives a token whose subject is their own id.
C10_OwnLogin ==
    (last.op = "login" /\ DOMAIN last.data = LoginKeys) =>
        \A i \in DOMAIN last.tbl :
            (/\ last.tbl[i].username = last.data.identifier
             /\ check_password(last.tbl[i].password_hash, last.data.password)) =>
                /\ HasToken(last.resp)
                /\ last.resp.access_token.sub = last.tbl[i].id

====
